---- MODULE Spec2Model ----
(***************************************************************************)
(* Model of output/plot_gitdata.py: a top-to-bottom script that stores the *)
(* plotly credentials, reads a CSV from a URL with pd.read_csv, wraps the  *)
(* resulting matrix in a Surface trace, builds a Layout and a Figure and   *)
(* submits the Figure with py.iplot.                                       *)
(*                                                                         *)
(* A CSV body is a sequence of lines, a line a sequence of fields, a field *)
(* a sequence of characters.  The environment chooses the body and the     *)
(* outcome of each of the two network calls.                               *)
(***************************************************************************)
EXTENDS Integers, Sequences, FiniteSets, TLC

VARIABLES
    csv,         \* body served at the URL of line 12
    pc,          \* statement the interpreter is at
    credFile,    \* ~/.plotly/.credentials (outlives the process)
    credWrites,  \* calls of set_credentials_file in this run
    z_data,      \* module global z_data (line 12)
    data,        \* module global data (line 14); <<>> while the name is unbound
    layout,      \* module global layout (line 19)
    fig,         \* module global fig (line 31)
    fetchCalls,  \* HTTP GETs issued by pd.read_csv in this run
    iplotCalls,  \* arguments of each py.iplot call of this run
    hosted,      \* files stored in the hosted plotly account
    exc,         \* unhandled exception that ended the run
    exitStatus,  \* exit status of the interpreter: <<>> while it runs, then <<status>>
    trail,       \* statements entered so far in this run, in order
    run,         \* ordinal of the current run of the script
    prevFig      \* fig at the end of the previous run

vars == <<csv, pc, credFile, credWrites, z_data, data, layout, fig,
          fetchCalls, iplotCalls, hosted, exc, exitStatus, trail, run, prevFig>>

----------------------------------------------------------------------------
(* Bounds *)

MaxCells == 4   \* fields in a generated CSV body, over all its lines
MaxRuns == 2    \* successive runs of the script

----------------------------------------------------------------------------
(* Values *)

None == [kind |-> "None"]

Digits == {"0", "1", "2", "3", "4", "5", "6", "7", "8", "9"}
DigitVal == "0" :> 0 @@ "1" :> 1 @@ "2" :> 2 @@ "3" :> 3 @@ "4" :> 4 @@
            "5" :> 5 @@ "6" :> 6 @@ "7" :> 7 @@ "8" :> 8 @@ "9" :> 9

\* Fields the environment may put in a cell: a plain integer, an integer
\* with a leading zero, a text value, and the empty field.
Fields == { <<"1">>, <<"0", "2">>, <<"x">>, <<>> }

LinesOfLen(k) == [1..k -> Fields]

\* Every body of at most n fields in all; lines may differ in length.
RECURSIVE BodiesUpTo(_)
BodiesUpTo(n) ==
    { <<>> } \cup
    UNION { { <<l>> \o b : l \in LinesOfLen(k), b \in BodiesUpTo(n - k) } :
            k \in 1..n }

Bodies == BodiesUpTo(MaxCells)

\* The end-to-end body 1,2,3 / 4,5,6 / 7,8,9.
Body3x3 == << << <<"1">>, <<"2">>, <<"3">> >>,
              << <<"4">>, <<"5">>, <<"6">> >>,
              << <<"7">>, <<"8">>, <<"9">> >> >>

IsNumeric(f) == Len(f) > 0 /\ \A k \in 1..Len(f) : f[k] \in Digits

RECURSIVE ToNumber(_)
ToNumber(f) ==
    IF f = <<>> THEN 0
    ELSE ToNumber(SubSeq(f, 1, Len(f) - 1)) * 10 + DigitVal[f[Len(f)]]

Num(n) == [kind |-> "num", num |-> n, text |-> <<>>]
NaN == [kind |-> "nan", num |-> 0, text |-> <<>>]
Str(f) == [kind |-> "str", num |-> 0, text |-> f]

----------------------------------------------------------------------------
(* pd.read_csv with its defaults: header='infer', skip_blank_lines=True,   *)
(* error_bad_lines=True.                                                   *)

IsBlank(line) == line = << <<>> >>

RECURSIVE SkipBlank(_)
SkipBlank(body) ==
    IF body = <<>> THEN <<>>
    ELSE IF IsBlank(Head(body)) THEN SkipBlank(Tail(body))
    ELSE <<Head(body)>> \o SkipBlank(Tail(body))

\* header='infer' with no names given: the first non-blank line is the header.
HeaderLine(body) == Head(SkipBlank(body))
DataLines(body) == Tail(SkipBlank(body))

\* A line with fewer fields than the table is padded with empty fields.
Pad(line, w) == [j \in 1..w |-> IF j <= Len(line) THEN line[j] ELSE <<>>]

EmptyData(body) == SkipBlank(body) = <<>>
TooManyFields(body) ==
    /\ ~EmptyData(body)
    /\ \E i \in 1..Len(DataLines(body)) :
           Len(DataLines(body)[i]) > Len(HeaderLine(body))

\* Type inference is per column: a column whose non-empty fields all convert
\* is numeric (empty fields are NaN); otherwise it is an object column whose
\* fields stay strings (empty fields are still NaN).
ColumnIsNumeric(lines, j) ==
    \A i \in 1..Len(lines) : lines[i][j] = <<>> \/ IsNumeric(lines[i][j])

ConvertColumn(lines, j) ==
    [i \in 1..Len(lines) |->
        IF lines[i][j] = <<>> THEN NaN
        ELSE IF ColumnIsNumeric(lines, j) THEN Num(ToNumber(lines[i][j]))
        ELSE Str(lines[i][j])]

\* read_csv called with header=None: no line is taken as the header
read_csv_header_none(body) ==
    LET w == Len(HeaderLine(body))
        lines == [i \in 1..Len(SkipBlank(body)) |-> Pad(SkipBlank(body)[i], w)]
    IN  [columns |-> HeaderLine(body),
         nrows |-> Len(lines),
         cols |-> [j \in 1..w |-> ConvertColumn(lines, j)]]

read_csv(body) ==
    LET w == Len(HeaderLine(body))
        lines == [i \in 1..Len(DataLines(body)) |-> Pad(DataLines(body)[i], w)]
    IN  [columns |-> HeaderLine(body),
         nrows |-> Len(lines),
         cols |-> [j \in 1..w |-> ConvertColumn(lines, j)]]

\* DataFrame.as_matrix(): the values as a row-major 2-D array.
as_matrix(df) ==
    [i \in 1..df.nrows |-> [j \in 1..Len(df.cols) |-> df.cols[j][i]]]

----------------------------------------------------------------------------
(* plotly graph objects *)

Surface(z) == [type |-> "surface", z |-> z]

\* a layout left to size itself
LayoutAutosized ==
    [title |-> "Mt Bruno Elevation",
     autosize |-> TRUE,
     width |-> 500,
     height |-> 500,
     margin |-> [l |-> 65, r |-> 50, b |-> 65, t |-> 90]]

Layout ==
    [title |-> "Mt Bruno Elevation",
     autosize |-> FALSE,
     width |-> 500,
     height |-> 500,
     margin |-> [l |-> 65, r |-> 50, b |-> 65, t |-> 90]]

\* a figure that extends the traces already stored in the hosted account
FigureExtendingHosted(d, l) ==
    [data |-> IF hosted = None THEN d ELSE hosted.figure.data \o d, layout |-> l]

Figure(d, l) == [data |-> d, layout |-> l]

Credentials == [username |-> "annevanrossum", api_key |-> "2z29vr6xo7"]
Filename == "elevations-3d-surface"

RenderFailures == {"auth", "network", "quota"}

----------------------------------------------------------------------------
(* The script *)

\* pandas reads the first data line's width to decide on an implicit index
\* column; the bodies considered have a first data line as wide as the header.
WellFramed(body) ==
    EmptyData(body) \/ DataLines(body) = <<>>
        \/ Len(DataLines(body)[1]) = Len(HeaderLine(body))

ProcessStart ==
    /\ pc = "set_credentials_file"
    /\ credWrites = 0
    /\ z_data = None /\ data = <<>> /\ layout = None /\ fig = None
    /\ fetchCalls = 0
    /\ iplotCalls = <<>>
    /\ exc = "none"
    /\ exitStatus = <<>>
    /\ trail = <<"set_credentials_file">>

Init ==
    /\ csv \in { b \in Bodies \cup {Body3x3} : WellFramed(b) }
    /\ ProcessStart
    /\ credFile = None
    /\ hosted = None
    /\ run = 1
    /\ prevFig = None

Goto(stmt) == pc' = stmt /\ trail' = Append(trail, stmt)

\* an exception that is reported but leaves the exit status at 0
RaiseExitZero(e) ==
    /\ exc' = e
    /\ exitStatus' = <<0>>
    /\ Goto("error")

Raise(e) ==
    /\ exc' = e
    /\ exitStatus' = <<1>>
    /\ Goto("error")

\* credentials kept for the session only, nothing written to the file
SetCredentialsSessionOnly ==
    /\ pc = "set_credentials_file"
    /\ credWrites' = credWrites + 1
    /\ Goto("read_csv")
    /\ UNCHANGED <<csv, credFile, z_data, data, layout, fig, fetchCalls,
                   iplotCalls, hosted, exc, exitStatus, run, prevFig>>

\* line 5
SetCredentials ==
    /\ pc = "set_credentials_file"
    /\ credFile' = Credentials
    /\ credWrites' = credWrites + 1
    /\ Goto("read_csv")
    /\ UNCHANGED <<csv, z_data, data, layout, fig, fetchCalls, iplotCalls,
                   hosted, exc, exitStatus, run, prevFig>>

\* a fetch failure that is caught and replaced by an empty table
ReadCsvUnreachableCaught ==
    /\ pc = "read_csv"
    /\ fetchCalls' = fetchCalls + 1
    /\ exc' = "URLError"
    /\ z_data' = [columns |-> <<>>, nrows |-> 0, cols |-> <<>>]
    /\ Goto("data")
    /\ UNCHANGED <<csv, credFile, credWrites, data, layout, fig, iplotCalls,
                   hosted, exitStatus, run, prevFig>>

\* line 12, the URL cannot be fetched
ReadCsvUnreachable ==
    /\ pc = "read_csv"
    /\ fetchCalls' = fetchCalls + 1
    /\ Raise("URLError")
    /\ UNCHANGED <<csv, credFile, credWrites, z_data, data, layout, fig,
                   iplotCalls, hosted, run, prevFig>>

\* line 12, the body is fetched but the parser rejects it
ReadCsvParseError ==
    /\ pc = "read_csv"
    /\ EmptyData(csv) \/ TooManyFields(csv)
    /\ fetchCalls' = fetchCalls + 1
    /\ Raise(IF EmptyData(csv) THEN "EmptyDataError" ELSE "ParserError")
    /\ UNCHANGED <<csv, credFile, credWrites, z_data, data, layout, fig,
                   iplotCalls, hosted, run, prevFig>>

\* line 12, the body is fetched and parsed
ReadCsv ==
    /\ pc = "read_csv"
    /\ ~EmptyData(csv) /\ ~TooManyFields(csv)
    /\ fetchCalls' = fetchCalls + 1
    /\ z_data' = read_csv(csv)
    /\ Goto("data")
    /\ UNCHANGED <<csv, credFile, credWrites, data, layout, fig, iplotCalls,
                   hosted, exc, exitStatus, run, prevFig>>

\* lines 14-18
BuildData ==
    /\ pc = "data"
    /\ data' = << Surface(as_matrix(z_data)) >>
    /\ Goto("layout")
    /\ UNCHANGED <<csv, credFile, credWrites, z_data, layout, fig, fetchCalls,
                   iplotCalls, hosted, exc, exitStatus, run, prevFig>>

\* the layout is built and the figure construction is left out
BuildLayoutThenIplot ==
    /\ pc = "layout"
    /\ layout' = Layout
    /\ Goto("iplot")
    /\ UNCHANGED <<csv, credFile, credWrites, z_data, data, fig, fetchCalls,
                   iplotCalls, hosted, exc, exitStatus, run, prevFig>>

\* lines 19-30
BuildLayout ==
    /\ pc = "layout"
    /\ layout' = Layout
    /\ Goto("fig")
    /\ UNCHANGED <<csv, credFile, credWrites, z_data, data, fig, fetchCalls,
                   iplotCalls, hosted, exc, exitStatus, run, prevFig>>

\* line 31
BuildFigure ==
    /\ pc = "fig"
    /\ fig' = Figure(data, layout)
    /\ Goto("iplot")
    /\ UNCHANGED <<csv, credFile, credWrites, z_data, data, layout, fetchCalls,
                   iplotCalls, hosted, exc, exitStatus, run, prevFig>>

\* the figure is submitted under the default filename
IplotDefaultName ==
    /\ pc = "iplot"
    /\ iplotCalls' = Append(iplotCalls, [figure |-> fig, filename |-> "plot from API"])
    /\ hosted' = [filename |-> "plot from API", figure |-> fig, owner |-> credFile.username]
    /\ exitStatus' = <<0>>
    /\ Goto("done")
    /\ UNCHANGED <<csv, credFile, credWrites, z_data, data, layout, fig,
                   fetchCalls, exc, run, prevFig>>

\* line 32, the service accepts the figure
Iplot ==
    /\ pc = "iplot"
    /\ iplotCalls' = Append(iplotCalls, [figure |-> fig, filename |-> Filename])
    /\ hosted' = [filename |-> Filename, figure |-> fig, owner |-> credFile.username]
    /\ exitStatus' = <<0>>
    /\ Goto("done")
    /\ UNCHANGED <<csv, credFile, credWrites, z_data, data, layout, fig,
                   fetchCalls, exc, run, prevFig>>

\* a failed submission is tried a second time before giving up
IplotFailRetry ==
    /\ pc = "iplot"
    /\ \E cause \in RenderFailures :
          /\ iplotCalls' = iplotCalls \o
                << [figure |-> fig, filename |-> Filename],
                   [figure |-> fig, filename |-> Filename] >>
          /\ Raise(cause)
    /\ UNCHANGED <<csv, credFile, credWrites, z_data, data, layout, fig,
                   fetchCalls, hosted, run, prevFig>>

\* line 32, the submission fails
IplotFail ==
    /\ pc = "iplot"
    /\ \E cause \in RenderFailures :
          /\ iplotCalls' = Append(iplotCalls, [figure |-> fig, filename |-> Filename])
          /\ Raise(cause)
    /\ UNCHANGED <<csv, credFile, credWrites, z_data, data, layout, fig,
                   fetchCalls, hosted, run, prevFig>>

\* the script is started again after it has exited; only the credentials
\* file, the hosted account and the resource at the URL are left of the
\* earlier run
Rerun ==
    /\ pc \in {"done", "error"}
    /\ run < MaxRuns
    /\ run' = run + 1
    /\ prevFig' = fig
    /\ pc' = "set_credentials_file"
    /\ credWrites' = 0
    /\ z_data' = None /\ data' = <<>> /\ layout' = None /\ fig' = None
    /\ fetchCalls' = 0
    /\ iplotCalls' = <<>>
    /\ exc' = "none"
    /\ exitStatus' = <<>>
    /\ trail' = <<"set_credentials_file">>
    /\ UNCHANGED <<csv, credFile, hosted>>

Next ==
    \/ SetCredentials
    \/ ReadCsvUnreachable
    \/ ReadCsvParseError
    \/ ReadCsv
    \/ BuildData
    \/ BuildLayout
    \/ BuildFigure
    \/ Iplot
    \/ IplotFail

Spec == Init /\ [][Next]_vars

\* every statement of the single-threaded script is eventually executed and
\* each blocking network call eventually succeeds or fails
FairSpec == Spec /\ WF_vars(Next)

NextRuns == Next \/ Rerun

SpecRuns == Init /\ [][NextRuns]_vars

----------------------------------------------------------------------------
(* Properties *)

Terminated == pc \in {"done", "error"}
LoadErrors == {"URLError", "EmptyDataError", "ParserError"}

\* The body is a rectangle of R >= 1 lines of C >= 1 numeric fields.
NumericTable(body) ==
    /\ Len(body) >= 1
    /\ \A i \in 1..Len(body) :
          /\ Len(body[i]) = Len(body[1])
          /\ \A j \in 1..Len(body[i]) : IsNumeric(body[i][j])

\* The Grid handed to the surface trace.
Grid == data[1].z

C2_LoadFailureBuildsNothing ==
    exc \in LoadErrors =>
        /\ pc = "error"
        /\ z_data = None /\ data = <<>> /\ fig = None
        /\ iplotCalls = <<>>

C2_Witness ==
    /\ exc = "URLError"
    /\ pc = "error"
    /\ fetchCalls = 1
    /\ fig = None

\* A field of a data line that is not a number.
HasNonNumericCell(body) ==
    \E i \in 1..Len(body) : \E j \in 1..Len(body[i]) : ~IsNumeric(body[i][j])

GridKeepsNonNumber(g) ==
    \E i \in 1..Len(g) : \E j \in 1..Len(g[i]) : g[i][j].kind \in {"str", "nan"}

\* C3 as stated: a body with a non-numeric cell never gets as far as a Figure
\* or a render submission whose Grid holds a cell kept as text or turned
\* into NaN.
C3_NonNumericCellFailsLoad ==
    HasNonNumericCell(csv) =>
        /\ fig # None => ~GridKeepsNonNumber(fig.data[1].z)
        /\ \A k \in 1..Len(iplotCalls) :
              ~GridKeepsNonNumber(iplotCalls[k].figure.data[1].z)

\* C4: a run whose load step succeeded calls py.iplot at most once, and has
\* called it exactly once when it ends; the call carries the filename
\* "elevations-3d-surface" and a Figure with exactly one surface trace whose
\* z is the matrix of the z_data loaded in this run.
C4_RenderedOnceWithLoadedGrid ==
    /\ Len(iplotCalls) <= 1
    /\ (Terminated /\ z_data # None) => Len(iplotCalls) = 1
    /\ \A k \in 1..Len(iplotCalls) :
          /\ z_data # None
          /\ iplotCalls[k].filename = "elevations-3d-surface"
          /\ Len(iplotCalls[k].figure.data) = 1
          /\ iplotCalls[k].figure.data[1].type = "surface"
          /\ iplotCalls[k].figure.data[1].z = as_matrix(z_data)
          /\ iplotCalls[k].figure = fig

C4_Witness ==
    /\ pc = "done"
    /\ Len(iplotCalls) = 1
    /\ csv = Body3x3
    /\ iplotCalls[1].figure.data[1].z[2][3] = Num(9)

\* C5: whenever a Figure exists its layout has width 500, height 500,
\* autosize false, title "Mt Bruno Elevation" and margins l=65, r=50, b=65,
\* t=90, whatever the body.
C5_LayoutConstants ==
    fig # None =>
        /\ fig.layout.width = 500
        /\ fig.layout.height = 500
        /\ fig.layout.autosize = FALSE
        /\ fig.layout.title = "Mt Bruno Elevation"
        /\ fig.layout.margin = [l |-> 65, r |-> 50, b |-> 65, t |-> 90]

C5_Witness ==
    /\ fig # None
    /\ Len(csv) = 1 /\ Len(csv[1]) = 4
    /\ fig.layout.width = 500

\* C6: when two successive runs on the same body both build a Figure, the
\* two Figures are equal, whether or not the first run's submission was
\* stored by the service.
C6_SameBodySameFigure ==
    (run > 1 /\ fig # None /\ prevFig # None) => fig = prevFig

C6_Witness ==
    /\ run = 2
    /\ fig # None
    /\ prevFig = fig
    /\ hosted = None
    /\ Len(fig.data[1].z) = 2

ExitContract ==
    /\ (exitStatus = <<>>) <=> ~Terminated
    /\ (exitStatus = <<0>>) <=> pc = "done"
    /\ (exitStatus = <<1>>) <=> pc = "error"
    /\ pc = "done" =>
          /\ exc = "none"
          /\ fetchCalls = 1 /\ z_data # None
          /\ fig # None
          /\ Len(iplotCalls) = 1
          /\ hosted # None
    /\ pc = "error" <=> exc # "none"
    /\ exc # "none" => exc \in LoadErrors \cup RenderFailures
    /\ exc \in LoadErrors => z_data = None
    /\ exc \in RenderFailures => Len(iplotCalls) = 1

MainPath == <<"set_credentials_file", "read_csv", "data", "layout", "fig",
              "iplot", "done">>

IsPrefix(s, t) == Len(s) <= Len(t) /\ s = SubSeq(t, 1, Len(s))

\* C8: the statements entered by a run are a prefix of set_credentials_file,
\* read_csv, data, layout, fig, iplot, done, or such a prefix ending in
\* read_csv or iplot followed by the error exit; a Figure exists only after
\* a successful load and a submission only after the Figure exists.
C8_StrictOrder ==
    /\ \/ IsPrefix(trail, MainPath)
       \/ /\ trail[Len(trail)] = "error"
          /\ IsPrefix(SubSeq(trail, 1, Len(trail) - 1), MainPath)
          /\ trail[Len(trail) - 1] \in {"read_csv", "iplot"}
    /\ pc = trail[Len(trail)]
    /\ data # <<>> => z_data # None
    /\ fig # None => (data # <<>> /\ layout # None)
    /\ iplotCalls # <<>> => fig # None

C8_Witness ==
    trail = MainPath

\* C9: a run issues at most one CSV fetch and at most one render submission,
\* and a failed submission leaves the run in the error state with that one
\* submission and nothing stored or rendered.
C9_NoRetry ==
    /\ fetchCalls <= 1
    /\ Len(iplotCalls) <= 1
    /\ fetchCalls + Len(iplotCalls) <= 2
    /\ exc \in RenderFailures =>
          /\ pc = "error"
          /\ exitStatus = <<1>>
          /\ Len(iplotCalls) = 1
          /\ hosted = None

C9_Witness ==
    /\ exc = "quota"
    /\ pc = "error"
    /\ fetchCalls = 1
    /\ Len(iplotCalls) = 1

\* C10: set_credentials_file runs exactly once per run and before the fetch:
\* the credentials are in the credentials file whenever the fetch or the
\* submission is in progress or has been made, they stay there when the load
\* fails, and they are still there when the script is started again.
C10_CredentialsFirst ==
    /\ credWrites <= 1
    /\ pc # "set_credentials_file" => (credWrites = 1 /\ credFile = Credentials)
    /\ pc \in {"read_csv", "iplot"} => credFile = Credentials
    /\ (fetchCalls > 0 \/ iplotCalls # <<>>) => credFile = Credentials
    /\ exc \in LoadErrors => (credFile = Credentials /\ iplotCalls = <<>>)
    /\ run > 1 => credFile = Credentials

C10_Witness ==
    /\ run = 2
    /\ pc = "set_credentials_file"
    /\ credFile = Credentials
    /\ prevFig = None

====
